---- MODULE Spec2Model ----
(***************************************************************************)
(* State-machine model of the MusicPlayer class of pomop                   *)
(* (src/www/modules/music.js): the playlist, the play cursor, the shuffle  *)
(* and repeat modes, the HTMLAudioElement it drives, the localStorage      *)
(* record it persists to, and the events it emits to its subscribers.      *)
(*                                                                         *)
(* Every player method is an operator from a state record to a state       *)
(* record, so that a method calling another (removeTrack -> stop,          *)
(* next -> playTrack) is a nested application; an action applies one       *)
(* method to the current state as a whole.  Subscribers of the player's    *)
(* events only observe: the events a method emits are the `emitted` field  *)
(* of the record it yields, in emission order, and `seen` holds what a     *)
(* subscriber finds the player in at each emission.  `plays` holds the     *)
(* promises of the audio.play() calls the method made, each with whether   *)
(* the method attached a rejection handler to it.                          *)
(***************************************************************************)
EXTENDS Integers, Sequences, FiniteSets, TLC

VARIABLES
    playlist,           \* this.playlist: sequence of track objects
    currentTrackIndex,  \* this.currentTrackIndex: -1 or an index, 0-based
    isPlaying,          \* this.isPlaying
    shuffle,            \* this.shuffle
    repeat,             \* this.repeat: "none", "one", "all"
    audio,              \* this.audio: [src, paused, currentTime]
    pending,            \* media-element tasks queued by the audio element
    store,              \* localStorage: the two keys the player writes
    reads,              \* FileReader reads in flight (addTrack suspended)
    listeners,          \* this.listeners: event name -> the callbacks
                        \* subscribed to it, in subscription order
    host,               \* the host: [quota] of localStorage, [ids] the id
                        \* expression may yield for an upload; never changes
    balance             \* history: the length the playlist had when the
                        \* player was constructed or last cleared, plus the
                        \* addTrack completions, minus the removeTrack calls
                        \* whose id was in the playlist, since then

vars == <<playlist, currentTrackIndex, isPlaying, shuffle, repeat, audio,
          pending, store, reads, listeners, host, balance>>

(***************************************************************************)
(* Bounds of the model and sample inputs.                                  *)
(***************************************************************************)
MaxTracks == 3      \* addTrack is not taken on a playlist of this length
MaxPending == 2     \* queued media-element tasks
MaxReads == 1       \* FileReader reads in flight
MaxId == 2          \* values Date.now() + Math.random() is drawn from
Quota == 6          \* a localStorage quota that large records exceed

Ids == 1..MaxId

\* Seconds of elapsed time previous() compares audio.currentTime with.
RestartAfter == 3
\* Sampled playback positions: rewound, exactly the threshold, the end.
EndTime == RestartAfter + 2
Times == {0, RestartAfter, EndTime}

\* Strings the player handles are sequences of characters; the audio
\* element of a new player has the empty source.
NoSrc == <<>>

\* File handles given to addTrack.  A handle from Electron carries a path;
\* a browser File does not and is read into a data URL.
FileA == [name |-> <<"a", ".", "x", ".", "m">>, path |-> <<"/", "a">>]
FileB == [name |-> <<"b", ".", "w">>]
Files == {FileA, FileB}

\* The data URL FileReader.readAsDataURL yields for a file.
DataUrl(file) == <<"data:">> \o file.name

(***************************************************************************)
(* Object model: a JavaScript object is a record over the properties it    *)
(* has; reading a property it lacks gives undefined, which is falsy.       *)
(***************************************************************************)
Has(obj, key) == key \in DOMAIN obj

\* Truthiness of a string-valued property: present and not empty.
Truthy(obj, key) == Has(obj, key) /\ obj[key] # <<>>

\* obj[key] where the property exists; undefined reads as the empty source.
Get(obj, key) == IF Has(obj, key) THEN obj[key] ELSE NoSrc

\* file.name.replace(/\.[^/.]+$/, ''): drop a last ".ext" whose ext is
\* non-empty and holds neither "/" nor ".".
StripExt(name) ==
    LET dots == {i \in 1..Len(name) :
                    /\ name[i] = "."
                    /\ i < Len(name)
                    /\ \A j \in (i+1)..Len(name) : name[j] \notin {".", "/"}}
    IN  IF dots = {} THEN name
        ELSE SubSeq(name, 1, (CHOOSE i \in dots : TRUE) - 1)

(***************************************************************************)
(* JSON.  A serialized playlist is the sequence of its objects, each the   *)
(* sequence of its <<key, value>> members in property order; properties    *)
(* that are absent are not written.                                        *)
(***************************************************************************)
KeyOrder == <<"id", "name", "fileName", "path", "data", "duration">>

RECURSIVE Members(_, _, _)
Members(obj, keys, i) ==
    IF i > Len(keys) THEN <<>>
    ELSE (IF Has(obj, keys[i]) THEN << <<keys[i], obj[keys[i]]>> >> ELSE <<>>)
         \o Members(obj, keys, i + 1)

StringifyObject(obj) == Members(obj, KeyOrder, 1)

Stringify(list) == [i \in 1..Len(list) |-> StringifyObject(list[i])]

ParseObject(text) ==
    [k \in {text[i][1] : i \in 1..Len(text)} |->
        LET i == CHOOSE j \in 1..Len(text) : text[j][1] = k IN text[i][2]]

Parse(text) == [i \in 1..Len(text) |-> ParseObject(text[i])]

\* JSON.parse throws on a text that is cut short: a member without value.
ParseThrows(text) ==
    \E i \in 1..Len(text) : \E j \in 1..Len(text[i]) : Len(text[i][j]) # 2

(***************************************************************************)
(* localStorage.  A key is absent (<<>>) or holds one string (<<text>>).   *)
(* setItem throws when the value, with what the other key holds, exceeds   *)
(* the quota; an embedded data URL is what makes a record large.           *)
(***************************************************************************)
PrimaryKey == "pomop-music-playlist"
MetaKey == "pomop-music-playlist-meta"

EmptyStore == [k \in {PrimaryKey, MetaKey} |-> <<>>]

MemberSize(m) == IF m[1] = "data" THEN 4 ELSE 0

RECURSIVE ObjectSize(_, _)
ObjectSize(text, i) ==
    IF i > Len(text) THEN 1 ELSE MemberSize(text[i]) + ObjectSize(text, i + 1)

RECURSIVE Size(_, _)
Size(text, i) ==
    IF i > Len(text) THEN 0 ELSE ObjectSize(text[i], 1) + Size(text, i + 1)

Held(st, key) == IF st[key] = <<>> THEN 0 ELSE Size(st[key][1], 1)

OtherKey(key) == IF key = PrimaryKey THEN MetaKey ELSE PrimaryKey

SetItemThrows(st, key, text, quota) ==
    Size(text, 1) + Held(st, OtherKey(key)) > quota

SetItem(st, key, text) == [st EXCEPT ![key] = <<text>>]

(***************************************************************************)
(* The state record the methods act on.                                    *)
(***************************************************************************)
Cur ==
    [playlist |-> playlist, currentTrackIndex |-> currentTrackIndex,
     isPlaying |-> isPlaying, shuffle |-> shuffle, repeat |-> repeat,
     audio |-> audio, pending |-> pending, store |-> store,
     listeners |-> listeners, quota |-> host.quota, emitted |-> <<>>,
     seen |-> <<>>, plays |-> <<>>, ret |-> <<>>, calls |-> <<>>, depth |-> 0]

\* What a subscriber can read of the player while it runs.
Snapshot(s) ==
    [playlist |-> s.playlist, currentTrackIndex |-> s.currentTrackIndex,
     isPlaying |-> s.isPlaying, audio |-> s.audio, store |-> s.store]

\* this.listeners = {}
NoListeners == [event \in {} |-> <<>>]

\* on(event, callback)
on(s, event, callback) ==
    LET old == IF Has(s.listeners, event) THEN s.listeners[event] ELSE <<>>
    IN  [s EXCEPT !.listeners =
            [k \in DOMAIN s.listeners \cup {event} |->
                IF k = event THEN Append(old, callback) ELSE s.listeners[k]]]

\* The callbacks subscribed: one that looks and returns, as those of
\* app.js do, and one that calls playTrack(index) before it returns.
Watcher == [does |-> "return"]
Player(index) == [does |-> "playTrack", index |-> index]

RECURSIVE playTrack(_, _)

\* callback(data): `calls` logs the call and the return with the depth of
\* nesting they happen at.
Invoke(s, callback, e) ==
    LET entry == [callback |-> callback, ev |-> e.ev, depth |-> s.depth]
        s1 == [s EXCEPT !.calls = Append(@, entry @@ [at |-> "call"]),
                        !.depth = @ + 1]
        s2 == IF callback.does = "playTrack"
              THEN playTrack(s1, callback.index) ELSE s1
    IN  [s2 EXCEPT !.calls = Append(@, entry @@ [at |-> "return"]),
                   !.depth = @ - 1]

\* callbacks.forEach(callback => callback(data)), from position i on.
RECURSIVE ForEach(_, _, _, _)
ForEach(s, callbacks, i, e) ==
    IF i > Len(callbacks) THEN s
    ELSE ForEach(Invoke(s, callbacks[i], e), callbacks, i + 1, e)

\* Variant: the subscribers are called last first.
RECURSIVE ForEachBackwards(_, _, _, _)
ForEachBackwards(s, callbacks, i, e) ==
    IF i < 1 THEN s
    ELSE ForEachBackwards(Invoke(s, callbacks[i], e), callbacks, i - 1, e)

Emit_LastFirst(s, e) ==
    LET s1 == [s EXCEPT !.emitted = Append(@, e),
                        !.seen = Append(@, Snapshot(s))]
    IN  IF Has(s.listeners, e.ev)
        THEN ForEachBackwards(s1, s.listeners[e.ev], Len(s.listeners[e.ev]), e)
        ELSE s1

\* this.emit(event, data).  `emitted` and `seen` log the event and the
\* state the subscribers are called in.
Emit(s, e) ==
    LET s1 == [s EXCEPT !.emitted = Append(@, e),
                        !.seen = Append(@, Snapshot(s))]
    IN  IF Has(s.listeners, e.ev)
        THEN ForEach(s1, s.listeners[e.ev], 1, e)
        ELSE s1

(***************************************************************************)
(* The HTMLAudioElement, as far as the player uses it.                     *)
(***************************************************************************)
NewAudio == [src |-> NoSrc, paused |-> TRUE, currentTime |-> 0]

\* audio.pause(): a playing element becomes paused and queues `pause`.
AudioPause(s) ==
    IF s.audio.paused THEN s
    ELSE [s EXCEPT !.audio.paused = TRUE, !.pending = Append(@, "pause")]

\* audio.play(): an element whose playback has ended is rewound; a paused
\* element starts and queues `play`.  The call returns a promise, which has
\* no rejection handler until the caller attaches one.
AudioPlay(s) ==
    LET s1 == IF s.audio.currentTime = EndTime
              THEN [s EXCEPT !.audio.currentTime = 0] ELSE s
        s2 == IF s1.audio.paused
              THEN [s1 EXCEPT !.audio.paused = FALSE,
                              !.pending = Append(@, "play")]
              ELSE s1
    IN  [s2 EXCEPT !.plays = Append(@, [catch |-> FALSE])]

\* promise.catch(handler) on the promise of the last audio.play() call.
Catch(s) == [s EXCEPT !.plays[Len(s.plays)].catch = TRUE]

\* audio.currentTime = t
AudioSeek(s, t) == [s EXCEPT !.audio.currentTime = t]

\* audio.src = url: the load algorithm drops the element's queued tasks,
\* pauses it without a `pause` event and rewinds it.
AudioSetSrc(s, url) ==
    [s EXCEPT !.audio = [src |-> url, paused |-> TRUE, currentTime |-> 0],
              !.pending = <<>>]

(***************************************************************************)
(* Persistence.                                                            *)
(***************************************************************************)
MetadataOnly(list) ==
    [i \in 1..Len(list) |->
        [id |-> list[i].id, name |-> list[i].name, fileName |-> list[i].fileName]]

\* Variant: the projection without sources is what the primary key gets.
savePlaylist_MetadataFirst(s) ==
    LET meta == Stringify(MetadataOnly(s.playlist))
    IN  IF ~SetItemThrows(s.store, PrimaryKey, meta, s.quota)
        THEN [s EXCEPT !.store = SetItem(@, PrimaryKey, meta)]
        ELSE s

\* Variant: the fallback drops the stale primary record to make room.
savePlaylist_DropsPrimary(s) ==
    LET meta == Stringify(MetadataOnly(s.playlist))
        text == Stringify(s.playlist)
        freed == [s.store EXCEPT ![PrimaryKey] = <<>>]
    IN  IF ~SetItemThrows(s.store, PrimaryKey, text, s.quota)
        THEN [s EXCEPT !.store = SetItem(@, PrimaryKey, text)]
        ELSE IF ~SetItemThrows(freed, MetaKey, meta, s.quota)
             THEN [s EXCEPT !.store = SetItem(freed, MetaKey, meta)]
             ELSE s

savePlaylist(s) ==
    LET Fallback(meta) ==
            IF ~SetItemThrows(s.store, MetaKey, meta, s.quota)
            THEN [s EXCEPT !.store = SetItem(@, MetaKey, meta)]
            ELSE s
        Primary(text) ==
            IF ~SetItemThrows(s.store, PrimaryKey, text, s.quota)
            THEN [s EXCEPT !.store = SetItem(@, PrimaryKey, text)]
            ELSE Fallback(Stringify(MetadataOnly(s.playlist)))
    IN  Primary(Stringify(s.playlist))

\* The playlist loadPlaylist leaves in a player constructed over store st.
loadPlaylist(st) ==
    IF st[PrimaryKey] # <<>> /\ ~ParseThrows(st[PrimaryKey][1])
    THEN Parse(st[PrimaryKey][1])
    ELSE <<>>

(***************************************************************************)
(* The player's methods.                                                   *)
(***************************************************************************)
\* Variant: stop() clears the flag itself.
stop_ClearsFlag(s) ==
    LET s1 == AudioSeek(AudioPause(s), 0)
        s2 == [s1 EXCEPT !.currentTrackIndex = -1, !.isPlaying = FALSE]
    IN  Emit(s2, [ev |-> "stop"])

\* stop()
stop(s) ==
    LET s1 == AudioSeek(AudioPause(s), 0)
        s2 == [s1 EXCEPT !.currentTrackIndex = -1]
    IN  Emit(s2, [ev |-> "stop"])

\* Variant: an index out of range clears the selection.
playTrack_StopsOutOfRange(s, index) ==
    IF index < 0 \/ index >= Len(s.playlist) THEN stop(s)
    ELSE LET track == s.playlist[index + 1]
             s1 == [s EXCEPT !.currentTrackIndex = index]
             s2 == AudioSetSrc(s1, IF Truthy(track, "path") THEN track.path
                                   ELSE Get(track, "data"))
             s3 == Catch(AudioPlay(s2))
         IN  Emit(s3, [ev |-> "trackchange", track |-> track, index |-> index])

\* Variant: the selection is made without telling the subscribers.
playTrack_NoEmit(s, index) ==
    IF index < 0 \/ index >= Len(s.playlist) THEN s
    ELSE LET track == s.playlist[index + 1]
             s1 == [s EXCEPT !.currentTrackIndex = index]
             s2 == AudioSetSrc(s1, IF Truthy(track, "path") THEN track.path
                                   ELSE Get(track, "data"))
         IN  Catch(AudioPlay(s2))

\* playTrack(index)
playTrack(s, index) ==
    IF index < 0 \/ index >= Len(s.playlist) THEN s
    ELSE LET track == s.playlist[index + 1]
             s1 == [s EXCEPT !.currentTrackIndex = index]
             s2 == AudioSetSrc(s1, IF Truthy(track, "path") THEN track.path
                                   ELSE Get(track, "data"))
             s3 == Catch(AudioPlay(s2))
         IN  Emit(s3, [ev |-> "trackchange", track |-> track, index |-> index])

\* Variant: pausing gives up the selection and the position.
pause_Stops(s) == stop(s)

\* pause()
pause(s) == AudioPause(s)

\* Variant: without the early return on an empty playlist.
togglePlay_NoEmptyCheck(s) ==
    IF s.isPlaying THEN pause(s)
    ELSE IF s.currentTrackIndex = -1 THEN playTrack(s, 0)
    ELSE AudioPlay(s)

\* Variant: a paused selection is started over instead of resumed.
togglePlay_RestartsTrack(s) ==
    IF Len(s.playlist) = 0 THEN s
    ELSE IF s.isPlaying THEN pause(s)
    ELSE IF s.currentTrackIndex = -1 THEN playTrack(s, 0)
    ELSE playTrack(s, s.currentTrackIndex)

\* togglePlay()
togglePlay(s) ==
    IF Len(s.playlist) = 0 THEN s
    ELSE IF s.isPlaying THEN pause(s)
    ELSE IF s.currentTrackIndex = -1 THEN playTrack(s, 0)
    ELSE AudioPlay(s)

\* Variant: the end of the list wraps to the first track in every mode.
next_AlwaysWrap(s, random) ==
    IF Len(s.playlist) = 0 THEN s
    ELSE IF s.shuffle THEN playTrack(s, random)
    ELSE LET nextIndex == s.currentTrackIndex + 1
         IN  IF nextIndex >= Len(s.playlist)
             THEN playTrack(s, 0)
             ELSE playTrack(s, nextIndex)

\* Variant: the end of the list is tested before the shuffle setting.
next_ShuffleStopsAtEnd(s, random) ==
    IF Len(s.playlist) = 0 THEN s
    ELSE IF s.currentTrackIndex + 1 >= Len(s.playlist) /\ s.repeat # "all"
         THEN stop(s)
    ELSE IF s.shuffle THEN playTrack(s, random)
    ELSE playTrack(s, (s.currentTrackIndex + 1) % Len(s.playlist))

\* Variant: the track after the next one is taken.
next_SkipsOne(s, random) ==
    IF Len(s.playlist) = 0 THEN s
    ELSE IF s.shuffle THEN playTrack(s, random)
    ELSE LET nextIndex == s.currentTrackIndex + 2
         IN  IF nextIndex >= Len(s.playlist)
             THEN IF s.repeat = "all" THEN playTrack(s, 0) ELSE stop(s)
             ELSE playTrack(s, nextIndex)

\* next(); random is the index Math.floor(Math.random() * length) yields.
next(s, random) ==
    IF Len(s.playlist) = 0 THEN s
    ELSE IF s.shuffle THEN playTrack(s, random)
    ELSE LET nextIndex == s.currentTrackIndex + 1
         IN  IF nextIndex >= Len(s.playlist)
             THEN IF s.repeat = "all" THEN playTrack(s, 0) ELSE stop(s)
             ELSE playTrack(s, nextIndex)

\* Variant: without the restart of a track that is under way.
previous_NoRestart(s) ==
    IF Len(s.playlist) = 0 THEN s
    ELSE LET prevIndex == s.currentTrackIndex - 1
         IN  IF prevIndex < 0
             THEN IF s.repeat = "all" THEN playTrack(s, Len(s.playlist) - 1)
                  ELSE playTrack(s, 0)
             ELSE playTrack(s, prevIndex)

\* Variant: the track restarts from the threshold on, not only beyond it.
previous_FromThreshold(s) ==
    IF Len(s.playlist) = 0 THEN s
    ELSE IF s.audio.currentTime >= RestartAfter THEN AudioSeek(s, 0)
    ELSE LET prevIndex == s.currentTrackIndex - 1
         IN  IF prevIndex < 0
             THEN IF s.repeat = "all" THEN playTrack(s, Len(s.playlist) - 1)
                  ELSE playTrack(s, 0)
             ELSE playTrack(s, prevIndex)

\* previous()
previous(s) ==
    IF Len(s.playlist) = 0 THEN s
    ELSE IF s.audio.currentTime > RestartAfter THEN AudioSeek(s, 0)
    ELSE LET prevIndex == s.currentTrackIndex - 1
         IN  IF prevIndex < 0
             THEN IF s.repeat = "all" THEN playTrack(s, Len(s.playlist) - 1)
                  ELSE playTrack(s, 0)
             ELSE playTrack(s, prevIndex)

\* toggleShuffle()
toggleShuffle(s) ==
    LET s1 == [s EXCEPT !.shuffle = ~s.shuffle]
        s2 == Emit(s1, [ev |-> "shufflechange", shuffle |-> s1.shuffle])
    IN  [s2 EXCEPT !.ret = <<s2.shuffle>>]

\* toggleRepeat()
Modes == <<"none", "one", "all">>

IndexOf(seq, x) ==
    IF \E i \in 1..Len(seq) : seq[i] = x
    THEN (CHOOSE i \in 1..Len(seq) :
             seq[i] = x /\ \A j \in 1..(i - 1) : seq[j] # x) - 1
    ELSE -1

\* Variant: the cycle runs backwards.
toggleRepeat_Backwards(s) ==
    LET currentIndex == IndexOf(Modes, s.repeat)
        s1 == [s EXCEPT !.repeat = Modes[((currentIndex + 2) % Len(Modes)) + 1]]
        s2 == Emit(s1, [ev |-> "repeatchange", repeat |-> s1.repeat])
    IN  [s2 EXCEPT !.ret = <<s2.repeat>>]

toggleRepeat(s) ==
    LET currentIndex == IndexOf(Modes, s.repeat)
        s1 == [s EXCEPT !.repeat = Modes[((currentIndex + 1) % Len(Modes)) + 1]]
        s2 == Emit(s1, [ev |-> "repeatchange", repeat |-> s1.repeat])
    IN  [s2 EXCEPT !.ret = <<s2.repeat>>]

\* this.playlist.findIndex(t => t.id === trackId)
FindIndex(list, trackId) ==
    IF \E i \in 1..Len(list) : list[i].id = trackId
    THEN (CHOOSE i \in 1..Len(list) :
             list[i].id = trackId /\ \A j \in 1..(i - 1) : list[j].id # trackId) - 1
    ELSE -1

\* Variant: splice(index) without the count, which drops the rest of the list.
Splice_ToEnd(list, index) == SubSeq(list, 1, index)

\* this.playlist.splice(index, 1)
Splice(list, index) ==
    SubSeq(list, 1, index) \o SubSeq(list, index + 2, Len(list))

\* Variant: the cursor is not adjusted after the removal.
removeTrack_NoAdjust(s, trackId) ==
    LET index == FindIndex(s.playlist, trackId)
        s1 == IF index = s.currentTrackIndex THEN stop(s) ELSE s
        s2 == [s1 EXCEPT !.playlist = Splice(@, index)]
    IN  IF index = -1 THEN s
        ELSE Emit(savePlaylist(s2), [ev |-> "trackremoved", trackId |-> trackId])

\* Variant: playback is stopped whichever track is removed.
removeTrack_AlwaysStop(s, trackId) ==
    LET index == FindIndex(s.playlist, trackId)
        s1 == stop(s)
        s2 == [s1 EXCEPT !.playlist = Splice(@, index)]
        s3 == IF s2.currentTrackIndex > index
              THEN [s2 EXCEPT !.currentTrackIndex = @ - 1] ELSE s2
    IN  IF index = -1 THEN s
        ELSE Emit(savePlaylist(s3), [ev |-> "trackremoved", trackId |-> trackId])

\* removeTrack(trackId)
removeTrack(s, trackId) ==
    LET index == FindIndex(s.playlist, trackId)
        s1 == IF index = s.currentTrackIndex THEN stop(s) ELSE s
        s2 == [s1 EXCEPT !.playlist = Splice(@, index)]
        s3 == IF s2.currentTrackIndex > index
              THEN [s2 EXCEPT !.currentTrackIndex = @ - 1] ELSE s2
    IN  IF index = -1 THEN s
        ELSE Emit(savePlaylist(s3), [ev |-> "trackremoved", trackId |-> trackId])

\* Variant: the list is emptied before playback is stopped.
clearPlaylist_EmptiesFirst(s) ==
    LET s1 == stop([s EXCEPT !.playlist = <<>>])
    IN  Emit(savePlaylist(s1), [ev |-> "playlistcleared"])

\* clearPlaylist()
clearPlaylist(s) ==
    LET s1 == [stop(s) EXCEPT !.playlist = <<>>]
    IN  Emit(savePlaylist(s1), [ev |-> "playlistcleared"])

\* Variant: the path branch keeps a data property as well.
PathTrack_WithData(file, id) ==
    [id |-> id, name |-> StripExt(file.name), fileName |-> file.name,
     path |-> file.path, data |-> file.path, duration |-> 0]

\* The track addTrack builds for a handle with a path.
PathTrack(file, id) ==
    [id |-> id, name |-> StripExt(file.name), fileName |-> file.name,
     path |-> file.path, duration |-> 0]

\* The track reader.onload builds from the data URL read.
DataTrack(file, id, result) ==
    [id |-> id, name |-> StripExt(file.name), fileName |-> file.name,
     data |-> result, duration |-> 0]

\* Variant: the subscribers are told before the playlist is saved.
pushTrack_EmitFirst(s, track) ==
    LET s1 == [s EXCEPT !.playlist = Append(@, track)]
        s2 == savePlaylist(Emit(s1, [ev |-> "trackadded", track |-> track]))
    IN  [s2 EXCEPT !.ret = <<track>>]

\* push, save, emit, resolve: the tail both branches of addTrack share.
pushTrack(s, track) ==
    LET s1 == [s EXCEPT !.playlist = Append(@, track)]
        s2 == Emit(savePlaylist(s1), [ev |-> "trackadded", track |-> track])
    IN  [s2 EXCEPT !.ret = <<track>>]

\* Variant: a failed read still adds the track, without a source.
readerOnerror_AddsTrack(s, file) ==
    pushTrack(s, [id |-> MaxId, name |-> StripExt(file.name),
                  fileName |-> file.name, duration |-> 0])

\* reader.onerror: reject(new Error('Failed to read file')).
readerOnerror(s, file) ==
    [s EXCEPT !.ret = <<[rejected |-> "Failed to read file"]>>]

\* getCurrentTrack(): <<>> stands for null.
getCurrentTrack(s) ==
    IF s.currentTrackIndex = -1 THEN <<>>
    ELSE <<s.playlist[s.currentTrackIndex + 1]>>

(***************************************************************************)
(* The rejection handler playTrack attaches to the promise of audio.play().*)
(***************************************************************************)
\* err.message of the rejections an audio element gives: the source cannot
\* be played, the start was interrupted.
PlayErrors == {"NotSupportedError", "AbortError"}

\* Variant: a failed start clears the selection.
onPlayRejected_RollsBack(s, err) ==
    Emit([s EXCEPT !.currentTrackIndex = -1, !.audio.src = NoSrc],
         [ev |-> "error", message |-> <<"Failed to play track: ", err>>])

\* err => { console.error(...); this.emit('error', { message: ... }) }
onPlayRejected(s, err) ==
    Emit(s, [ev |-> "error", message |-> <<"Failed to play track: ", err>>])

(***************************************************************************)
(* Listeners the constructor puts on the audio element.                    *)
(***************************************************************************)
onPlay(s) ==
    Emit([s EXCEPT !.isPlaying = TRUE],
         [ev |-> "play", trackIndex |-> s.currentTrackIndex])

onPause(s) ==
    Emit([s EXCEPT !.isPlaying = FALSE],
         [ev |-> "pause", trackIndex |-> s.currentTrackIndex])

\* Variant: the end of a track advances whatever the repeat mode.
onEnded_IgnoresRepeat(s, random) == next(s, random)

onEnded(s, random) ==
    IF s.repeat = "one" THEN AudioPlay(AudioSeek(s, 0))
    ELSE next(s, random)

\* The element's end-of-playback task: an element that is still playing at
\* its end is paused and fires `pause`; then `ended` fires.
EndedTask(s, random) ==
    LET s1 == IF ~s.audio.paused /\ s.audio.currentTime = EndTime
              THEN onPause([s EXCEPT !.audio.paused = TRUE])
              ELSE s
    IN  onEnded(s1, random)

(***************************************************************************)
(* Actions: one per call of a method, per listener run, per environment    *)
(* step.                                                                   *)
(***************************************************************************)
\* The state after a step that ran the method to its end as state record s.
Commit(s) ==
    /\ Len(s.pending) <= MaxPending
    /\ playlist' = s.playlist
    /\ currentTrackIndex' = s.currentTrackIndex
    /\ isPlaying' = s.isPlaying
    /\ shuffle' = s.shuffle
    /\ repeat' = s.repeat
    /\ audio' = s.audio
    /\ pending' = s.pending
    /\ store' = s.store
    /\ listeners' = s.listeners
    /\ host' = host

\* addTrack(file) for a handle with a path: completes within the call.
AddTrackPath ==
    \E file \in Files : \E id \in host.ids[file] :
        /\ Truthy(file, "path")
        /\ Len(playlist) + Len(reads) < MaxTracks
        /\ Commit(pushTrack(Cur, PathTrack(file, id)))
        /\ balance' = balance + 1
        /\ UNCHANGED reads

\* addTrack(file) for a handle without a path: reader.readAsDataURL(file).
AddTrackRead ==
    \E file \in Files :
        /\ ~Truthy(file, "path")
        /\ Len(playlist) + Len(reads) < MaxTracks
        /\ Len(reads) < MaxReads
        /\ reads' = Append(reads, file)
        /\ Commit(Cur)
        /\ UNCHANGED balance

\* reader.onload of the read at position i.
ReaderOnload ==
    \E i \in 1..Len(reads) : \E id \in host.ids[reads[i]] :
        LET track == DataTrack(reads[i], id, DataUrl(reads[i]))
        IN  /\ reads' = Splice(reads, i - 1)
            /\ Commit(pushTrack(Cur, track))
            /\ balance' = balance + 1

\* reader.onerror of the read at position i: the promise is rejected.
ReaderOnerror ==
    \E i \in 1..Len(reads) :
        /\ reads' = Splice(reads, i - 1)
        /\ Commit(readerOnerror(Cur, reads[i]))
        /\ UNCHANGED balance

RemoveTrack ==
    \E trackId \in Ids :
        /\ Commit(removeTrack(Cur, trackId))
        /\ balance' = IF \E i \in 1..Len(playlist) : playlist[i].id = trackId
                      THEN balance - 1 ELSE balance
        /\ UNCHANGED reads

PlayTrack ==
    \E index \in -1..MaxTracks :
        /\ Commit(playTrack(Cur, index))
        /\ UNCHANGED <<reads, balance>>

TogglePlay ==
    /\ Commit(togglePlay(Cur))
    /\ UNCHANGED <<reads, balance>>

Pause ==
    /\ Commit(pause(Cur))
    /\ UNCHANGED <<reads, balance>>

Stop ==
    /\ Commit(stop(Cur))
    /\ UNCHANGED <<reads, balance>>

\* Math.floor(Math.random() * length) is any index of the playlist.
RandomIndexes == IF shuffle /\ Len(playlist) > 0 THEN 0..(Len(playlist) - 1) ELSE {0}

Next_ ==
    \E random \in RandomIndexes :
        /\ Commit(next(Cur, random))
        /\ UNCHANGED <<reads, balance>>

Previous ==
    /\ Commit(previous(Cur))
    /\ UNCHANGED <<reads, balance>>

ToggleShuffle ==
    /\ Commit(toggleShuffle(Cur))
    /\ UNCHANGED <<reads, balance>>

ToggleRepeat ==
    /\ Commit(toggleRepeat(Cur))
    /\ UNCHANGED <<reads, balance>>

ClearPlaylist ==
    /\ Commit(clearPlaylist(Cur))
    /\ balance' = 0
    /\ UNCHANGED reads

\* The callbacks subscribed to an event.
Subscribers(registry, event) ==
    IF Has(registry, event) THEN registry[event] ELSE <<>>

\* The subscriptions made: watchers of stop and of trackchange, and
\* subscribers of stop that start a track.  Each is made once at most.
Subscriptions ==
    {<<"stop", Watcher>>, <<"trackchange", Watcher>>}
    \cup {<<"stop", Player(index)>> : index \in 0..1}

On ==
    \E sub \in Subscriptions :
        /\ \A i \in 1..Len(Subscribers(listeners, sub[1])) :
               listeners[sub[1]][i] # sub[2]
        /\ Commit(on(Cur, sub[1], sub[2]))
        /\ UNCHANGED <<reads, balance>>

\* The element runs its oldest queued task.
DeliverPlay ==
    /\ pending # <<>> /\ Head(pending) = "play"
    /\ Commit(onPlay([Cur EXCEPT !.pending = Tail(@)]))
    /\ UNCHANGED <<reads, balance>>

DeliverPause ==
    /\ pending # <<>> /\ Head(pending) = "pause"
    /\ Commit(onPause([Cur EXCEPT !.pending = Tail(@)]))
    /\ UNCHANGED <<reads, balance>>

DeliverEnded ==
    /\ pending # <<>> /\ Head(pending) = "ended"
    /\ \E random \in RandomIndexes :
           Commit(EndedTask([Cur EXCEPT !.pending = Tail(@)], random))
    /\ UNCHANGED <<reads, balance>>

\* A promise of audio.play() that playTrack took is rejected and its handler
\* runs.  Which promises are unsettled is not kept: the handler may run in
\* every state of a player whose audio element was given a source.
PlayRejected ==
    /\ audio.src # NoSrc
    /\ \E err \in PlayErrors : Commit(onPlayRejected(Cur, err))
    /\ UNCHANGED <<reads, balance>>

\* Playback advances while the element plays a source.
Tick ==
    /\ ~audio.paused /\ audio.src # NoSrc
    /\ \E t \in Times :
           /\ t > audio.currentTime /\ t < EndTime
           /\ Commit([Cur EXCEPT !.audio.currentTime = t])
    /\ UNCHANGED <<reads, balance>>

\* Playback reaches the end of the track: the element queues its
\* end-of-playback task.
ReachEnd ==
    /\ ~audio.paused /\ audio.src # NoSrc
    /\ \A i \in 1..Len(pending) : pending[i] # "ended"
    /\ Commit([Cur EXCEPT !.audio.currentTime = EndTime,
                          !.pending = Append(@, "ended")])
    /\ UNCHANGED <<reads, balance>>

\* new MusicPlayer() over what localStorage holds.
Constructed(st) ==
    /\ playlist = loadPlaylist(st)
    /\ currentTrackIndex = -1
    /\ audio = NewAudio
    /\ isPlaying = FALSE
    /\ shuffle = FALSE
    /\ repeat = "none"
    /\ pending = <<>>
    /\ store = st
    /\ reads = <<>>
    /\ listeners = NoListeners
    /\ balance = Len(loadPlaylist(st))

\* The page is loaded again: a new player over the same localStorage.
Reload ==
    /\ playlist' = loadPlaylist(store)
    /\ currentTrackIndex' = -1
    /\ audio' = NewAudio
    /\ isPlaying' = FALSE
    /\ shuffle' = FALSE
    /\ repeat' = "none"
    /\ pending' = <<>>
    /\ reads' = <<>>
    /\ listeners' = NoListeners
    /\ balance' = Len(loadPlaylist(store))
    /\ UNCHANGED <<store, host>>

(***************************************************************************)
(* Spec: every operation of the player, on a host whose storage has room   *)
(* for every playlist within the bounds; an upload of FileA draws the      *)
(* first id, one of FileB the last, so two uploads of one file collide.    *)
(***************************************************************************)
AmpleQuota == MaxTracks * (1 + MemberSize(<<"data", <<>>>>))

Init ==
    /\ Constructed(EmptyStore)
    /\ host = [quota |-> AmpleQuota,
               ids |-> [f \in Files |-> IF f = FileA THEN {1} ELSE {MaxId}]]

Next ==
    \/ AddTrackPath \/ AddTrackRead \/ ReaderOnload \/ ReaderOnerror
    \/ RemoveTrack \/ PlayTrack \/ TogglePlay \/ Pause \/ Stop
    \/ Next_ \/ Previous \/ ToggleShuffle \/ ToggleRepeat \/ ClearPlaylist
    \/ DeliverPlay \/ DeliverPause \/ DeliverEnded \/ Tick \/ ReachEnd
    \/ PlayRejected \/ Reload

Spec == Init /\ [][Next]_vars

(***************************************************************************)
(* SpecStore: the playlist is edited and the page reloaded, nothing is     *)
(* played, on a host whose quota large playlists exceed; an upload of      *)
(* FileB may draw every id, the id of an earlier upload included.          *)
(***************************************************************************)
InitStore ==
    /\ Constructed(EmptyStore)
    /\ host = [quota |-> Quota,
               ids |-> [f \in Files |-> IF f = FileA THEN {1} ELSE Ids]]

NextStore ==
    \/ AddTrackPath \/ AddTrackRead \/ ReaderOnload \/ ReaderOnerror
    \/ RemoveTrack \/ ClearPlaylist \/ Reload

SpecStore == InitStore /\ [][NextStore]_vars

(***************************************************************************)
(* SpecQuota: the same edits and reloads on the same tight quota, each     *)
(* file drawing the one id it draws under Spec.                            *)
(***************************************************************************)
InitQuota ==
    /\ Constructed(EmptyStore)
    /\ host = [quota |-> Quota,
               ids |-> [f \in Files |-> IF f = FileA THEN {1} ELSE {MaxId}]]

SpecQuota == InitQuota /\ [][NextStore]_vars

(***************************************************************************)
(* SpecCorrupt: the primary item is written by something other than this   *)
(* player (an earlier version, another page of the origin, the user) and   *)
(* the page is loaded over it.  What is written is a list of tracks, a     *)
(* list of objects that are not tracks, or a text cut short.               *)
(***************************************************************************)
ListsOver(S) == UNION {[1..n -> S] : n \in 0..MaxTracks}

TrackLists ==
    ListsOver({PathTrack(FileA, 1), DataTrack(FileB, MaxId, DataUrl(FileB))})

\* [{}] and [{"id":1}]
NonTrackLists == {<<[k \in {} |-> 0]>>, <<[id |-> 1]>>}

\* [{"id":
CutShort == << << <<"id">> >> >>

ForeignItems ==
    {<<>>, <<CutShort>>}
    \cup {<<Stringify(list)>> : list \in TrackLists \cup NonTrackLists}

ForeignWrite ==
    /\ \E item \in ForeignItems : store' = [store EXCEPT ![PrimaryKey] = item]
    /\ UNCHANGED <<playlist, currentTrackIndex, isPlaying, shuffle, repeat,
                   audio, pending, reads, listeners, host, balance>>

InitCorrupt ==
    /\ \E item \in ForeignItems :
          Constructed([EmptyStore EXCEPT ![PrimaryKey] = item])
    /\ host = [quota |-> AmpleQuota,
               ids |-> [f \in Files |-> IF f = FileA THEN {1} ELSE {MaxId}]]

NextCorrupt == ForeignWrite \/ Reload

SpecCorrupt == InitCorrupt /\ [][NextCorrupt]_vars

(***************************************************************************)
(* SpecSubs: callbacks are subscribed, some of which call back into the    *)
(* player, while tracks are added, played, stopped and removed.            *)
(***************************************************************************)
InitSubs ==
    /\ Constructed(EmptyStore)
    /\ host = [quota |-> AmpleQuota,
               ids |-> [f \in Files |-> IF f = FileA THEN {1} ELSE {MaxId}]]

NextSubs ==
    \/ On \/ AddTrackPath \/ AddTrackRead \/ ReaderOnload \/ PlayTrack
    \/ Stop \/ RemoveTrack \/ ClearPlaylist \/ DeliverPlay \/ DeliverPause

SpecSubs == InitSubs /\ [][NextSubs]_vars

(***************************************************************************)
(* SpecPlay: a player that loaded a playlist is set to repeat "none" or    *)
(* "all", playTrack(i) is called, and from then on only the audio element  *)
(* acts: it delivers its events, plays on and reaches the end of every     *)
(* track it was started on.                                                *)
(***************************************************************************)
\* The player constructed over the stored record of list.
Loaded(list) ==
    [playlist |-> list, currentTrackIndex |-> -1, isPlaying |-> FALSE,
     shuffle |-> FALSE, repeat |-> "none", audio |-> NewAudio,
     pending |-> <<>>,
     store |-> [EmptyStore EXCEPT ![PrimaryKey] = <<Stringify(list)>>],
     listeners |-> NoListeners, quota |-> AmpleQuota, emitted |-> <<>>,
     seen |-> <<>>, plays |-> <<>>, ret |-> <<>>, calls |-> <<>>, depth |-> 0]

InitPlay ==
    \E list \in TrackLists : \E i \in 0..(Len(list) - 1) :
    \E s0 \in {Loaded(list), toggleRepeat(Loaded(list)),
                toggleRepeat(toggleRepeat(Loaded(list)))} :
        /\ s0.repeat \in {"none", "all"}
        /\ \A s \in {playTrack(s0, i)} :
              /\ playlist = s.playlist
              /\ currentTrackIndex = s.currentTrackIndex
              /\ isPlaying = s.isPlaying
              /\ shuffle = s.shuffle
              /\ repeat = s.repeat
              /\ audio = s.audio
              /\ pending = s.pending
              /\ store = s.store
              /\ listeners = s.listeners
        /\ reads = <<>>
        /\ balance = Len(list)
        /\ host = [quota |-> AmpleQuota,
                   ids |-> [f \in Files |-> IF f = FileA THEN {1} ELSE {MaxId}]]

\* The pause of an element that reached its end is fired by the task
\* that fires ended; no pause is queued on its own here.
NextPlay ==
    DeliverPlay \/ DeliverEnded \/ Tick \/ ReachEnd

SpecPlay ==
    /\ InitPlay /\ [][NextPlay]_vars
    /\ WF_vars(DeliverPlay) /\ WF_vars(DeliverEnded) /\ WF_vars(ReachEnd)

(***************************************************************************)
(* Properties.  A property of a method is stated of the record the method  *)
(* yields from the current state, in every reachable state.                *)
(***************************************************************************)
\* The source playTrack gives the audio element for a track.
SourceOf(track) == IF Truthy(track, "path") THEN track.path ELSE Get(track, "data")

TrackChange(s, index) ==
    [ev |-> "trackchange", track |-> s.playlist[index + 1], index |-> index]

\* C1: after any sequence of operations and audio events the cursor is -1
\* or an index of the playlist.
C1_CursorInRange ==
    \/ currentTrackIndex = -1
    \/ currentTrackIndex >= 0 /\ currentTrackIndex < Len(playlist)

\* The cursor is on the last of several tracks and the first one is removed.
C1_Witness ==
    /\ Len(playlist) >= 2
    /\ currentTrackIndex = Len(playlist) - 1
    /\ removeTrack(Cur, playlist[1].id).currentTrackIndex = Len(playlist) - 2

\* C2: the playlist is as long as the additions minus the removals of ids
\* that were present; removeTrack of an absent id changes nothing (playlist,
\* cursor, stored record) and emits nothing.
C2_LengthIsAddsMinusRemoves ==
    /\ Len(playlist) = balance
    /\ \A id \in Ids :
          FindIndex(playlist, id) = -1 => removeTrack(Cur, id) = Cur

\* Two tracks were added, one id is absent and one present id is removed.
C2_Witness ==
    /\ Len(playlist) = 2 /\ balance = 2
    /\ \E id \in Ids : FindIndex(playlist, id) = -1
    /\ \E id \in Ids :
          /\ FindIndex(playlist, id) # -1
          /\ Len(removeTrack(Cur, id).playlist) = 1

\* The value isPlaying has once the queued play and pause events of s are
\* delivered.
RECURSIVE PlayingAfter(_, _)
PlayingAfter(flag, queue) ==
    IF queue = <<>> THEN flag
    ELSE PlayingAfter(IF Head(queue) = "play" THEN TRUE
                      ELSE IF Head(queue) = "pause" THEN FALSE ELSE flag,
                      Tail(queue))

\* C3: removeTrack of the id of the track at the cursor leaves the cursor
\* at -1 and the audio element paused at position 0, and isPlaying false
\* once the pause event is delivered, wherever the track is in the list.
C3_RemoveCurrentStops ==
    currentTrackIndex >= 0 =>
        \A r \in {removeTrack(Cur, playlist[currentTrackIndex + 1].id)} :
            /\ r.currentTrackIndex = -1
            /\ r.audio.paused
            /\ r.audio.currentTime = 0
            /\ ~PlayingAfter(r.isPlaying, r.pending)

\* C4: removeTrack of a track other than the current one keeps the cursor
\* on the same track (one lower exactly when the removed index was below
\* it) and neither stops nor restarts playback.
C4_RemoveOtherKeepsTrack ==
    \A id \in Ids :
        \A index \in {FindIndex(playlist, id)} :
        \A r \in {removeTrack(Cur, id)} :
            (index # -1 /\ index # currentTrackIndex) =>
                /\ r.currentTrackIndex = IF index < currentTrackIndex
                                         THEN currentTrackIndex - 1
                                         ELSE currentTrackIndex
                /\ getCurrentTrack(r) = getCurrentTrack(Cur)
                /\ r.audio = audio /\ r.pending = pending
                /\ r.isPlaying = isPlaying
                /\ r.emitted = <<[ev |-> "trackremoved", trackId |-> id]>>

\* A track before the playing one is removed.
C4_Witness ==
    /\ currentTrackIndex >= 1 /\ ~audio.paused
    /\ \E id \in Ids :
          \A r \in {removeTrack(Cur, id)} :
              /\ FindIndex(playlist, id) \in 0..(currentTrackIndex - 1)
              /\ r.currentTrackIndex = currentTrackIndex - 1
              /\ getCurrentTrack(r) = <<playlist[currentTrackIndex + 1]>>

\* C5: with shuffle off, next() at the last index starts track 0 under
\* repeat "all" and otherwise stops (cursor -1, paused at 0, a stop event
\* and no trackchange); at an index below the last it moves the cursor up
\* by one.
C5_NextAtEnd ==
    (~shuffle /\ Len(playlist) > 0) =>
        \A r \in {next(Cur, 0)} :
        \A last \in {Len(playlist) - 1} :
            /\ (currentTrackIndex = last /\ repeat = "all") =>
                    /\ r.currentTrackIndex = 0
                    /\ r.audio.src = SourceOf(playlist[1])
                    /\ ~r.audio.paused
                    /\ r.emitted = <<TrackChange(Cur, 0)>>
            /\ (currentTrackIndex = last /\ repeat # "all") =>
                    /\ r.currentTrackIndex = -1
                    /\ r.audio.paused /\ r.audio.currentTime = 0
                    /\ r.emitted = <<[ev |-> "stop"]>>
            /\ (currentTrackIndex >= 0 /\ currentTrackIndex < last) =>
                    r.currentTrackIndex = currentTrackIndex + 1

\* next() wraps from the last of several tracks while it plays.
C5_Witness ==
    /\ ~shuffle /\ repeat = "all" /\ ~audio.paused
    /\ Len(playlist) >= 2 /\ currentTrackIndex = Len(playlist) - 1
    /\ next(Cur, 0).currentTrackIndex = 0

\* C6: on a non-empty playlist previous() more than 3 seconds into the
\* track only sets the position to 0: the cursor is unchanged and nothing
\* is emitted, whatever the cursor, repeat mode and shuffle setting.
C6_PreviousRestarts ==
    (Len(playlist) > 0 /\ audio.currentTime > RestartAfter) =>
        previous(Cur) = [Cur EXCEPT !.audio.currentTime = 0]

\* previous() past the threshold, on a track that has a predecessor.
C6_Witness ==
    /\ audio.currentTime > RestartAfter
    /\ currentTrackIndex >= 1 /\ shuffle /\ repeat = "all"
    /\ previous(Cur).audio.currentTime = 0
    /\ previous(Cur).currentTrackIndex = currentTrackIndex

\* C7: at most 3 seconds into the track, previous() at index 0 moves the
\* cursor to the last index under repeat "all" and otherwise replays track
\* 0, never stopping or clearing the cursor; at an index i > 0 it moves the
\* cursor to i - 1.
C7_PreviousAtStart ==
    (Len(playlist) > 0 /\ audio.currentTime <= RestartAfter) =>
        \A r \in {previous(Cur)} :
            /\ (currentTrackIndex = 0 /\ repeat = "all") =>
                    r.currentTrackIndex = Len(playlist) - 1
            /\ (currentTrackIndex = 0 /\ repeat # "all") =>
                    /\ r.currentTrackIndex = 0
                    /\ r.audio.src = SourceOf(playlist[1])
                    /\ ~r.audio.paused /\ r.audio.currentTime = 0
            /\ currentTrackIndex = 0 =>
                    /\ r.currentTrackIndex # -1
                    /\ r.emitted = <<TrackChange(Cur, r.currentTrackIndex)>>
            /\ currentTrackIndex > 0 =>
                    r.currentTrackIndex = currentTrackIndex - 1

\* previous() exactly 3 seconds into the first of several tracks.
C7_Witness ==
    /\ audio.currentTime = RestartAfter
    /\ currentTrackIndex = 0 /\ repeat = "all" /\ Len(playlist) >= 2
    /\ previous(Cur).currentTrackIndex = Len(playlist) - 1

\* C8: toggleRepeat() maps none to one, one to all, all to none, returns
\* the new mode and emits one repeatchange with it; three calls restore the
\* mode; playlist, cursor, shuffle and isPlaying are left alone.
C8_RepeatCycles ==
    \A r \in {toggleRepeat(Cur)} :
        /\ r.repeat = CASE repeat = "none" -> "one"
                         [] repeat = "one" -> "all"
                         [] repeat = "all" -> "none"
        /\ r.ret = <<r.repeat>>
        /\ r.emitted = <<[ev |-> "repeatchange", repeat |-> r.repeat]>>
        /\ toggleRepeat(toggleRepeat(r)).repeat = repeat
        /\ r = [Cur EXCEPT !.repeat = r.repeat, !.emitted = r.emitted,
                           !.seen = r.seen, !.ret = r.ret]

\* toggleRepeat() from "all", with a track playing and shuffle on.
C8_Witness ==
    /\ repeat = "all" /\ shuffle /\ isPlaying /\ currentTrackIndex >= 0
    /\ toggleRepeat(Cur).repeat = "none"

\* Two playlists hold the same ids, names, file names and sources, in order.
SameTracks(a, b) ==
    /\ Len(a) = Len(b)
    /\ \A i \in 1..Len(a) :
          /\ a[i].id = b[i].id
          /\ a[i].name = b[i].name
          /\ a[i].fileName = b[i].fileName
          /\ \A k \in {"path", "data"} :
                /\ Has(a[i], k) <=> Has(b[i], k)
                /\ Has(a[i], k) => a[i][k] = b[i][k]

\* The primary write of playlist list succeeds on the current store.
PrimaryFits(list) ==
    ~SetItemThrows(store, PrimaryKey, Stringify(list), host.quota)

\* What an addTrack completion, a removeTrack of an id that is present or
\* a clearPlaylist yields: the calls that save.
Edits ==
    {pushTrack(Cur, PathTrack(FileA, id)) : id \in host.ids[FileA]}
    \cup {pushTrack(Cur, DataTrack(FileB, id, DataUrl(FileB))) : id \in host.ids[FileB]}
    \cup {removeTrack(Cur, id) : id \in {i \in Ids : FindIndex(playlist, i) # -1}}
    \cup {clearPlaylist(Cur)}

\* C9: when the primary write succeeds, a player constructed after
\* savePlaylist loads the same ids, names, file names and sources in the
\* same order; so after every add, remove or clear whose write succeeds
\* the primary record is the playlist in memory.
C9_SaveLoadRoundTrip ==
    /\ PrimaryFits(playlist) =>
          SameTracks(loadPlaylist(savePlaylist(Cur).store), playlist)
    /\ \A r \in Edits :
          PrimaryFits(r.playlist) => SameTracks(loadPlaylist(r.store), r.playlist)

\* A path track and a data track are in the stored record.
C9_Witness ==
    /\ Len(playlist) = 2
    /\ Truthy(playlist[1], "path") /\ Truthy(playlist[2], "data")
    /\ store[PrimaryKey] = <<Stringify(playlist)>>
    /\ SameTracks(loadPlaylist(store), playlist)

\* C10: togglePlay() on an empty playlist emits nothing and changes nothing.
C10_TogglePlayEmpty ==
    Len(playlist) = 0 => togglePlay(Cur) = Cur

\* The playlist was emptied after a track had been played.
C10_Witness ==
    /\ Len(playlist) = 0 /\ audio.src # NoSrc /\ store[PrimaryKey] # <<>>
    /\ togglePlay(Cur).emitted = <<>>

\* C11: togglePlay() on a non-empty playlist pauses the audio element and
\* keeps the cursor when isPlaying is true; acts as playTrack(0) when
\* isPlaying is false and the cursor is -1; and when isPlaying is false and
\* a track is selected it resumes the element where it is, with cursor and
\* source unchanged and no trackchange.
C11_TogglePlay ==
    Len(playlist) > 0 =>
        \A r \in {togglePlay(Cur)} :
            /\ isPlaying =>
                    /\ r.audio.paused
                    /\ r.currentTrackIndex = currentTrackIndex
                    /\ r.emitted = <<>>
            /\ (~isPlaying /\ currentTrackIndex = -1) =>
                    /\ r = playTrack(Cur, 0)
                    /\ r.currentTrackIndex = 0
                    /\ r.audio.src = SourceOf(playlist[1])
                    /\ ~r.audio.paused
                    /\ r.emitted = <<TrackChange(Cur, 0)>>
            /\ (~isPlaying /\ currentTrackIndex # -1) =>
                    /\ ~r.audio.paused
                    /\ r.currentTrackIndex = currentTrackIndex
                    /\ r.audio.src = audio.src
                    /\ audio.currentTime # EndTime =>
                           r.audio.currentTime = audio.currentTime
                    /\ r.emitted = <<>>

\* togglePlay() on a track other than the first, paused part-way.
C11_Witness ==
    /\ ~isPlaying /\ audio.paused /\ pending = <<>>
    /\ currentTrackIndex >= 1 /\ audio.currentTime = RestartAfter
    /\ ~togglePlay(Cur).audio.paused
    /\ togglePlay(Cur).audio.currentTime = RestartAfter

\* The trackchange events among the events emitted.
TrackChanges(events) ==
    LET IsTrackChange(e) == e.ev = "trackchange"
    IN  SelectSeq(events, IsTrackChange)

\* The audio.play() calls playTrack made: the ones with a rejection handler.
Starts(promises) ==
    LET IsCaught(p) == p.catch
    IN  SelectSeq(promises, IsCaught)

\* What playTrack, next, previous, togglePlay and the ended listener yield.
Selections ==
    {playTrack(Cur, i) : i \in -1..MaxTracks}
    \cup {next(Cur, random) : random \in RandomIndexes}
    \cup {onEnded(Cur, random) : random \in RandomIndexes}
    \cup {previous(Cur), togglePlay(Cur)}

\* As many trackchange events as starts by playTrack, each with the cursor
\* at its emission as index and the track there as track.
OneChangePerStart(r) ==
    /\ Len(TrackChanges(r.emitted)) = Len(Starts(r.plays))
    /\ \A k \in 1..Len(r.emitted) :
          r.emitted[k].ev = "trackchange" =>
              /\ r.emitted[k].index = r.seen[k].currentTrackIndex
              /\ r.emitted[k].index \in 0..(Len(playlist) - 1)
              /\ r.emitted[k].track = playlist[r.emitted[k].index + 1]

\* C12: every playTrack(i) with i in range, called directly or through
\* next, previous or togglePlay, emits exactly one trackchange before it
\* returns, with index i and track playlist[i], while the play event of
\* that start is still queued and its promise is unsettled; with tracks
\* [A, B] and shuffle off, playTrack(0) then next() leaves the cursor at 1
\* with the trackchange events (0, A), (1, B).
C12_TrackChangeOnce ==
    /\ \A i \in 0..(Len(playlist) - 1) :
          \A r \in {playTrack(Cur, i)} :
              /\ r.emitted = <<TrackChange(Cur, i)>>
              /\ r.seen[1].currentTrackIndex = i
              /\ r.seen[1].isPlaying = isPlaying
              /\ r.pending = <<"play">> /\ r.isPlaying = isPlaying
              /\ r.plays = <<[catch |-> TRUE]>>
    /\ \A r \in Selections : OneChangePerStart(r)
    /\ (Len(playlist) = 2 /\ ~shuffle) =>
          \A r \in {next(playTrack(Cur, 0), 0)} :
              /\ r.currentTrackIndex = 1
              /\ r.emitted = <<TrackChange(Cur, 0), TrackChange(Cur, 1)>>

\* playTrack(0) then next() on a path track followed by a data track.
C12_Witness ==
    /\ Len(playlist) = 2 /\ ~shuffle
    /\ Truthy(playlist[1], "path") /\ Truthy(playlist[2], "data")
    /\ next(playTrack(Cur, 0), 0).currentTrackIndex = 1
    /\ Len(next(playTrack(Cur, 0), 0).emitted) = 2

\* The player when the listener of the queued ended event is about to run.
AtEnded == [Cur EXCEPT !.pending = Tail(@)]

\* C13: when the audio element fires ended under repeat "one", the cursor
\* is unchanged, the position is 0, play is requested again and neither
\* trackchange nor stop is emitted; under the other modes the listener does
\* what next() does.  With one track, shuffle off and repeat "none", ended
\* after playTrack(0) leaves the cursor at -1 and emits stop.
C13_Ended ==
    /\ \A random \in RandomIndexes :
          \A r \in {onEnded(Cur, random)} :
              /\ repeat = "one" =>
                    /\ r.currentTrackIndex = currentTrackIndex
                    /\ r.audio.currentTime = 0
                    /\ ~r.audio.paused
                    /\ Len(r.plays) = 1
                    /\ r.emitted = <<>>
              /\ repeat # "one" => r = next(Cur, random)
              /\ (Len(playlist) = 1 /\ ~shuffle /\ repeat = "none"
                    /\ currentTrackIndex = 0) =>
                    /\ r.currentTrackIndex = -1
                    /\ r.emitted = <<[ev |-> "stop"]>>
    /\ (pending # <<>> /\ Head(pending) = "ended") =>
          \A random \in RandomIndexes :
              \A r \in {EndedTask(AtEnded, random)} :
                  /\ repeat = "one" =>
                        /\ r.currentTrackIndex = currentTrackIndex
                        /\ r.audio.currentTime = 0
                        /\ ~r.audio.paused
                        /\ \A k \in 1..Len(r.emitted) :
                              r.emitted[k].ev \notin {"trackchange", "stop"}
                  /\ (Len(playlist) = 1 /\ ~shuffle /\ repeat = "none"
                        /\ currentTrackIndex = 0) =>
                        /\ r.currentTrackIndex = -1
                        /\ r.emitted[Len(r.emitted)] = [ev |-> "stop"]

\* The only track has played to its end and its ended event is queued.
C13_Witness ==
    /\ pending # <<>> /\ Head(pending) = "ended"
    /\ Len(playlist) = 1 /\ ~shuffle /\ repeat = "none"
    /\ currentTrackIndex = 0 /\ audio.currentTime = EndTime
    /\ EndedTask(AtEnded, 0).currentTrackIndex = -1

\* C14: when the read of a handle without a path fails, the promise of
\* addTrack is rejected with an error that has a message; playlist, cursor
\* and stored record are unchanged and no trackadded is emitted.
C14_ReadFails ==
    \A i \in 1..Len(reads) :
        \A r \in {readerOnerror(Cur, reads[i])} :
            /\ ~Truthy(reads[i], "path")
            /\ r.ret = <<[rejected |-> "Failed to read file"]>>
            /\ r.ret[1].rejected # ""
            /\ r.playlist = playlist
            /\ r.currentTrackIndex = currentTrackIndex
            /\ r.store = store
            /\ r.emitted = <<>>

\* A read is in flight on a playlist that is stored and has a selection.
C14_Witness ==
    /\ reads # <<>> /\ Len(playlist) >= 1 /\ currentTrackIndex >= 0
    /\ store[PrimaryKey] = <<Stringify(playlist)>>
    /\ readerOnerror(Cur, reads[1]).playlist = playlist

\* The track addTrack builds for a file and an id.
TrackOf(file, id) ==
    IF Truthy(file, "path") THEN PathTrack(file, id)
    ELSE DataTrack(file, id, DataUrl(file))

\* C15: a successful addTrack appends the track at the end, then saves,
\* then emits trackadded, then resolves with the track: a trackadded
\* subscriber finds the track last in the playlist and, when the write
\* succeeded, in the stored record.  The cursor, isPlaying and the tracks
\* already present, in their order, are left alone.
C15_AddTrackOrder ==
    Len(playlist) < MaxTracks =>
        \A file \in Files : \A id \in host.ids[file] :
            \A track \in {TrackOf(file, id)} :
            \A r \in {pushTrack(Cur, track)} :
                /\ r.playlist = Append(playlist, track)
                /\ SubSeq(r.playlist, 1, Len(playlist)) = playlist
                /\ r.emitted = <<[ev |-> "trackadded", track |-> track]>>
                /\ r.seen[1].playlist = r.playlist
                /\ PrimaryFits(r.playlist) =>
                       /\ r.seen[1].store = r.store
                       /\ SameTracks(loadPlaylist(r.seen[1].store), r.playlist)
                /\ r.ret = <<track>>
                /\ r.currentTrackIndex = currentTrackIndex
                /\ r.isPlaying = isPlaying
                /\ r.audio = audio /\ r.pending = pending

\* A track is added while the second of two tracks plays.
C15_Witness ==
    /\ Len(playlist) = 2 /\ currentTrackIndex = 1 /\ isPlaying
    /\ pushTrack(Cur, TrackOf(FileA, 1)).playlist[3] = TrackOf(FileA, 1)
    /\ pushTrack(Cur, TrackOf(FileA, 1)).currentTrackIndex = 1

\* Integer indexes outside the playlist.
OutOfRange == ((-2)..(-1)) \cup (Len(playlist)..(MaxTracks + 1))

\* C16: playTrack(index) with index < 0 or index >= playlist.length does
\* nothing: cursor, source and play/pause state of the audio element and
\* playlist are unchanged, no playback start is requested and no event is
\* emitted.
C16_PlayTrackOutOfRange ==
    \A index \in OutOfRange :
        \A r \in {playTrack(Cur, index)} :
            /\ r = Cur
            /\ r.currentTrackIndex = currentTrackIndex
            /\ r.audio = audio /\ r.pending = pending
            /\ r.playlist = playlist
            /\ r.emitted = <<>> /\ r.plays = <<>>

\* playTrack(length) while a track plays.
C16_Witness ==
    /\ Len(playlist) >= 1 /\ currentTrackIndex >= 0
    /\ ~audio.paused /\ isPlaying
    /\ playTrack(Cur, Len(playlist)) = Cur
    /\ playTrack(Cur, -1) = Cur

\* The error event the rejection handler emits for err.
ErrorEvent(err) ==
    [ev |-> "error", message |-> <<"Failed to play track: ", err>>]

\* C17: when the audio element rejects the start playTrack(i) asked for,
\* an error event with a message is emitted; playTrack returns nothing to
\* its caller; and the handler rolls nothing back: run right after
\* playTrack(i) it leaves the cursor at i and the source of track i, and
\* run in any state it changes no field of the player.
C17_RejectedStart ==
    \A err \in PlayErrors :
        /\ onPlayRejected(Cur, err) =
              [Cur EXCEPT !.emitted = <<ErrorEvent(err)>>,
                          !.seen = <<Snapshot(Cur)>>]
        /\ \A i \in 0..(Len(playlist) - 1) :
              \A p \in {playTrack(Cur, i)} :
              \A r \in {onPlayRejected(p, err)} :
                  /\ p.ret = <<>>
                  /\ p.plays = <<[catch |-> TRUE]>>
                  /\ r.emitted = <<TrackChange(Cur, i), ErrorEvent(err)>>
                  /\ r.emitted[2].message # <<>>
                  /\ r.currentTrackIndex = i
                  /\ r.audio.src = SourceOf(playlist[i + 1])
                  /\ r.seen[2].currentTrackIndex = i
                  /\ r.seen[2].audio.src = SourceOf(playlist[i + 1])
                  /\ r.playlist = playlist

\* The start of the second track is rejected while the first is selected.
C17_Witness ==
    /\ Len(playlist) >= 2 /\ currentTrackIndex = 0 /\ audio.src # NoSrc
    /\ onPlayRejected(playTrack(Cur, 1), "NotSupportedError").currentTrackIndex = 1
    /\ Len(onPlayRejected(playTrack(Cur, 1), "NotSupportedError").emitted) = 2

\* C18: pause() pauses the audio element, keeps cursor and position and
\* emits no stop; stop() pauses the element, sets the position to 0 and the
\* cursor to -1, emits exactly one stop and keeps playlist, shuffle and
\* repeat.
C18_PauseAndStop ==
    \A p \in {pause(Cur)} :
    \A q \in {stop(Cur)} :
        /\ p.audio.paused
        /\ p.currentTrackIndex = currentTrackIndex
        /\ p.audio.currentTime = audio.currentTime
        /\ p.audio.src = audio.src
        /\ p.emitted = <<>>
        /\ q.audio.paused
        /\ q.audio.currentTime = 0
        /\ q.currentTrackIndex = -1
        /\ q.emitted = <<[ev |-> "stop"]>>
        /\ q.playlist = playlist
        /\ q.shuffle = shuffle /\ q.repeat = repeat

\* pause() and stop() part-way through a track, shuffle on, repeat "all".
C18_Witness ==
    /\ ~audio.paused /\ currentTrackIndex >= 1
    /\ audio.currentTime = RestartAfter /\ shuffle /\ repeat = "all"
    /\ pause(Cur).audio.currentTime = RestartAfter
    /\ stop(Cur).currentTrackIndex = -1

\* C19: with shuffle on and a non-empty playlist, next() starts the index
\* drawn, which may be any index of the playlist, the current one
\* included, under every repeat mode and at every cursor; it does not stop
\* and does not leave the cursor at -1.
C19_ShuffleNext ==
    (shuffle /\ Len(playlist) > 0) =>
        /\ RandomIndexes = 0..(Len(playlist) - 1)
        /\ {next(Cur, random).currentTrackIndex : random \in RandomIndexes}
              = 0..(Len(playlist) - 1)
        /\ \A random \in RandomIndexes :
              \A r \in {next(Cur, random)} :
                  /\ r.currentTrackIndex = random
                  /\ r.currentTrackIndex # -1
                  /\ r.audio.src = SourceOf(playlist[random + 1])
                  /\ ~r.audio.paused
                  /\ r.emitted = <<TrackChange(Cur, random)>>

\* next() at the last index draws the last index again, repeat "none".
C19_Witness ==
    /\ shuffle /\ repeat = "none" /\ Len(playlist) >= 2
    /\ currentTrackIndex = Len(playlist) - 1
    /\ next(Cur, currentTrackIndex).currentTrackIndex = currentTrackIndex

\* The isPlaying the methods and handlers other than the play and pause
\* listeners leave.
Others ==
    {playTrack(Cur, i).isPlaying : i \in -1..MaxTracks}
    \cup {next(Cur, random).isPlaying : random \in RandomIndexes}
    \cup {onEnded(Cur, random).isPlaying : random \in RandomIndexes}
    \cup {previous(Cur).isPlaying, togglePlay(Cur).isPlaying,
          pause(Cur).isPlaying, stop(Cur).isPlaying,
          toggleShuffle(Cur).isPlaying, toggleRepeat(Cur).isPlaying,
          clearPlaylist(Cur).isPlaying}
    \cup {removeTrack(Cur, id).isPlaying : id \in Ids}
    \cup {pushTrack(Cur, TrackOf(file, MaxId)).isPlaying : file \in Files}
    \cup {readerOnerror(Cur, file).isPlaying : file \in Files}
    \cup {onPlayRejected(Cur, err).isPlaying : err \in PlayErrors}

\* The method left isPlaying as it was.
KeepsFlag(flag) == flag = isPlaying

\* No play or pause event of the audio element awaits delivery.
Delivered == \A k \in 1..Len(pending) : pending[k] \notin {"play", "pause"}

\* C20: the play listener sets isPlaying and emits play, the pause
\* listener clears it and emits pause, each with the cursor at delivery as
\* trackIndex; nothing else writes isPlaying; and when no play or pause
\* event awaits delivery, isPlaying holds exactly when the audio element is
\* not paused.
C20_IsPlayingMirrors ==
    /\ onPlay(Cur) =
          [Cur EXCEPT !.isPlaying = TRUE,
                      !.emitted = <<[ev |-> "play",
                                     trackIndex |-> currentTrackIndex]>>,
                      !.seen = <<Snapshot([Cur EXCEPT !.isPlaying = TRUE])>>]
    /\ onPause(Cur) =
          [Cur EXCEPT !.isPlaying = FALSE,
                      !.emitted = <<[ev |-> "pause",
                                     trackIndex |-> currentTrackIndex]>>,
                      !.seen = <<Snapshot([Cur EXCEPT !.isPlaying = FALSE])>>]
    /\ \A flag \in Others : KeepsFlag(flag)
    /\ Delivered => (isPlaying <=> ~audio.paused)

\* A pause event is queued on a playing player, then delivered.
C20_Witness ==
    /\ isPlaying /\ audio.paused /\ currentTrackIndex >= 0
    /\ pending = <<"pause">>
    /\ ~onPause(AtEnded).isPlaying
    /\ onPause(AtEnded).emitted = <<[ev |-> "pause", trackIndex |-> currentTrackIndex]>>

\* C21: clearPlaylist() stops (audio element paused and rewound, cursor -1,
\* stop emitted), then empties the playlist, then saves the empty playlist,
\* then emits playlistcleared; on return the playlist is empty and the
\* cursor -1, stop came before playlistcleared, and shuffle and repeat are
\* as they were.
C21_ClearPlaylistOrder ==
    \A r \in {clearPlaylist(Cur)} :
        /\ r.emitted = <<[ev |-> "stop"], [ev |-> "playlistcleared"]>>
        /\ r.seen[1].playlist = playlist
        /\ r.seen[1].currentTrackIndex = -1
        /\ r.seen[1].audio.paused /\ r.seen[1].audio.currentTime = 0
        /\ r.seen[1].store = store
        /\ r.seen[2].playlist = <<>>
        /\ r.seen[2].store[PrimaryKey] = <<Stringify(<<>>)>>
        /\ r.playlist = <<>> /\ r.currentTrackIndex = -1
        /\ r.audio.paused /\ r.audio.currentTime = 0
        /\ r.store = r.seen[2].store
        /\ r.shuffle = shuffle /\ r.repeat = repeat

\* clearPlaylist() while the second of several tracks plays part-way.
C21_Witness ==
    /\ Len(playlist) >= 2 /\ currentTrackIndex = 1 /\ ~audio.paused
    /\ audio.currentTime = RestartAfter /\ shuffle /\ repeat = "one"
    /\ clearPlaylist(Cur).playlist = <<>>
    /\ Len(clearPlaylist(Cur).emitted) = 2

\* The store r.store is what a save of r.playlist over the store `before`
\* leaves when the primary write fails: the primary item as it was, and
\* under the secondary key the id, name and fileName of every track in
\* playlist order, or, when that write fails too, nothing new at all.
FellBack(before, r) ==
    \A meta \in {Stringify(MetadataOnly(r.playlist))} :
        /\ r.store[PrimaryKey] = before[PrimaryKey]
        /\ IF SetItemThrows(before, MetaKey, meta, host.quota)
           THEN r.store = before
           ELSE /\ r.store[MetaKey] = <<meta>>
                /\ \A list \in {Parse(meta)} :
                      /\ Len(list) = Len(r.playlist)
                      /\ \A i \in 1..Len(list) :
                            /\ DOMAIN list[i] = {"id", "name", "fileName"}
                            /\ list[i].id = r.playlist[i].id
                            /\ list[i].name = r.playlist[i].name
                            /\ list[i].fileName = r.playlist[i].fileName

\* No error event among the events emitted.
NoErrorEvent(events) ==
    \A i \in 1..Len(events) : events[i].ev # "error"

\* C22: when the primary write fails, savePlaylist() writes the projection
\* without sources under the secondary key and leaves the primary item as
\* it was; when that write fails too nothing is written.  Nothing
\* propagates: the addTrack, removeTrack or clearPlaylist that saved still
\* changes the playlist in memory and emits its event, emits no error
\* event, and addTrack still resolves with the track.
C22_WriteFails ==
    /\ ~PrimaryFits(playlist) =>
          \A r \in {savePlaylist(Cur)} :
              FellBack(store, r) /\ [r EXCEPT !.store = store] = Cur
    /\ Len(playlist) < MaxTracks =>
          \A file \in Files : \A id \in host.ids[file] :
              \A track \in {TrackOf(file, id)} :
              \A r \in {pushTrack(Cur, track)} :
                  ~PrimaryFits(r.playlist) =>
                      /\ FellBack(store, r)
                      /\ r.playlist = Append(playlist, track)
                      /\ r.emitted = <<[ev |-> "trackadded", track |-> track]>>
                      /\ r.ret = <<track>>
    /\ \A id \in {i \in Ids : FindIndex(playlist, i) # -1} :
          \A r \in {removeTrack(Cur, id)} :
              ~PrimaryFits(r.playlist) =>
                  /\ FellBack(store, r)
                  /\ r.playlist = Splice(playlist, FindIndex(playlist, id))
                  /\ r.emitted[Len(r.emitted)] =
                         [ev |-> "trackremoved", trackId |-> id]
                  /\ NoErrorEvent(r.emitted)
                  /\ r.ret = <<>>
    /\ \A r \in {clearPlaylist(Cur)} :
          ~PrimaryFits(r.playlist) =>
              /\ FellBack(store, r)
              /\ r.playlist = <<>>
              /\ r.emitted[Len(r.emitted)] = [ev |-> "playlistcleared"]
              /\ NoErrorEvent(r.emitted)

\* The secondary key holds the projection of a playlist the primary key
\* could not take, and a removal from it falls back again.
C22_Witness ==
    /\ Len(playlist) = MaxTracks
    /\ store[MetaKey] = <<Stringify(MetadataOnly(playlist))>>
    /\ store[PrimaryKey] = <<Stringify(SubSeq(playlist, 1, Len(playlist) - 1))>>
    /\ \E id \in Ids :
          /\ FindIndex(playlist, id) # -1
          /\ ~PrimaryFits(removeTrack(Cur, id).playlist)
          /\ removeTrack(Cur, id).store[MetaKey] # store[MetaKey]

\* An object with the properties of a track and exactly one source.
IsTrack(obj) ==
    /\ {"id", "name", "fileName", "duration"} \subseteq DOMAIN obj
    /\ Truthy(obj, "path") # Truthy(obj, "data")

\* The primary item is there, parses, and is a list of tracks.
StoresTracks(st) ==
    /\ st[PrimaryKey] # <<>>
    /\ ~ParseThrows(st[PrimaryKey][1])
    /\ \A list \in {Parse(st[PrimaryKey][1])} :
          \A i \in 1..Len(list) : IsTrack(list[i])

\* C23: construction leaves the playlist an empty list whenever the
\* primary item is missing, unreadable or corrupt, a text that parses but
\* is not a list of tracks included; the cursor starts at -1, isPlaying
\* false, shuffle false and repeat 'none'.
C23_ConstructionSurvivesStore ==
    [][Reload =>
          /\ ~StoresTracks(store) => playlist' = <<>>
          /\ currentTrackIndex' = -1 /\ ~isPlaying'
          /\ ~shuffle' /\ repeat' = "none"]_vars

\* The calls made at depth d, in the order they were made.
CallsAt(log, d) ==
    SelectSeq(log, LAMBDA c : c.depth = d /\ c.at = "call")

\* Every call has returned, and what lies between a call and its return
\* is nested deeper: position j holds the return of the call at i.
Returns(log, i, j) ==
    /\ i < j /\ log[j].at = "return"
    /\ log[j].callback = log[i].callback /\ log[j].depth = log[i].depth
    /\ \A k \in (i + 1)..(j - 1) : log[k].depth > log[i].depth

\* The subscribers of stop that start a track the playlist has.
Starters(s) ==
    SelectSeq(Subscribers(s.listeners, "stop"),
              LAMBDA c : c.does = "playTrack" /\ c.index < Len(s.playlist))

\* C24: emit(event) calls every subscriber of that event once, within the
\* call, in subscription order, and no subscriber of another event.  What a
\* subscriber calls on the player runs to its end, emissions included,
\* before the next subscriber is called and before emit returns.
C24_EmitOrder ==
    \A name \in {"stop", "trackchange", "trackadded"} :
        \A r \in {Emit(Cur, [ev |-> name])} :
            /\ \A top \in {CallsAt(r.calls, 0)} :
                  /\ [i \in 1..Len(top) |-> top[i].callback]
                        = Subscribers(listeners, name)
                  /\ \A i \in 1..Len(top) : top[i].ev = name
            /\ \A i \in 1..Len(r.calls) :
                  /\ \E j \in 1..Len(Subscribers(listeners, r.calls[i].ev)) :
                        listeners[r.calls[i].ev][j] = r.calls[i].callback
                  /\ r.calls[i].at = "call" =>
                        \E j \in 1..Len(r.calls) : Returns(r.calls, i, j)
            /\ r.depth = 0
            /\ name = "stop" =>
                  /\ Len(TrackChanges(r.emitted)) = Len(Starters(Cur))
                  /\ Len(CallsAt(r.calls, 1))
                        = Len(Starters(Cur)) * Len(Subscribers(listeners, "trackchange"))
                  /\ Starters(Cur) # <<>> =>
                        r.currentTrackIndex
                          = Starters(Cur)[Len(Starters(Cur))].index

\* stop has a watcher between two subscribers that start tracks the
\* playlist has, and trackchange has a watcher.
C24_Witness ==
    /\ Len(playlist) >= 2
    /\ Subscribers(listeners, "stop") = <<Player(1), Watcher, Player(0)>>
    /\ Subscribers(listeners, "trackchange") = <<Watcher>>
    /\ Len(Emit(Cur, [ev |-> "stop"]).calls) = 10
    /\ Emit(Cur, [ev |-> "stop"]).currentTrackIndex = 0

\* The track has a path or a data URL, not both and not neither.
OneSource(track) ==
    /\ Truthy(track, "path") # Truthy(track, "data")
    /\ ~(Has(track, "path") /\ Has(track, "data"))

\* C25: every track of the playlist has exactly one source: addTrack
\* builds a track with a path only or with a data URL only, nothing
\* changes a track afterwards, and a save whose primary write succeeds
\* followed by a load gives the tracks back with the source they had.
C25_ExactlyOneSource ==
    /\ \A i \in 1..Len(playlist) : OneSource(playlist[i])
    /\ \A file \in Files : \A id \in host.ids[file] :
          /\ OneSource(TrackOf(file, id))
          /\ Truthy(file, "path") <=> Has(TrackOf(file, id), "path")
    /\ \A list \in {loadPlaylist(savePlaylist(Cur).store)} :
          \A i \in 1..Len(list) : OneSource(list[i])

\* A track with a path and a track with a data URL, as the store holds
\* them and a reload gives them back.
C25_Witness ==
    /\ Len(playlist) = 2
    /\ Has(playlist[1], "path") /\ Has(playlist[2], "data")
    /\ ~Has(playlist[1], "data") /\ ~Has(playlist[2], "path")
    /\ store[PrimaryKey] = <<Stringify(playlist)>>
    /\ loadPlaylist(store) = playlist

\* C26: no two tracks of the playlist have the same id, also when they
\* were added in the same instant or on top of a playlist that was loaded;
\* so removeTrack(id) removes the one track the id was taken from.
C26_UniqueIds ==
    /\ \A i, j \in 1..Len(playlist) :
          playlist[i].id = playlist[j].id => i = j
    /\ \A i \in 1..Len(playlist) :
          removeTrack(Cur, playlist[i].id).playlist = Splice(playlist, i - 1)

\* The cursor of r is -1 or an index of its playlist, and then on `track`.
OnOrOff(r, track) ==
    \/ r.currentTrackIndex = -1
    \/ /\ r.currentTrackIndex \in 0..(Len(r.playlist) - 1)
       /\ r.playlist[r.currentTrackIndex + 1] = track

\* C27: when a subscriber of stop calls playTrack(j) while
\* removeTrack(id of the current track) or clearPlaylist() is in its
\* stop() step, the cursor is, once the outer call has returned, -1 or an
\* index of the playlist, and an index of the track playTrack(j) selected.
C27_CursorUnderReentry ==
    \A starters \in {Starters(Cur)} :
        starters # <<>> =>
            \A track \in {playlist[starters[Len(starters)].index + 1]} :
                /\ OnOrOff(clearPlaylist(Cur), track)
                /\ (/\ currentTrackIndex # -1
                    /\ FindIndex(playlist, playlist[currentTrackIndex + 1].id)
                          = currentTrackIndex)
                       => OnOrOff(removeTrack(Cur, playlist[currentTrackIndex + 1].id),
                                  track)

\* C28: tracks whose reads are in flight at the same time appear in the
\* playlist in the order of the addTrack calls, whichever read completes
\* first; and a read that completes after clearPlaylist() has returned
\* adds nothing: the playlist stays empty until addTrack is called again.
C28_ReadsInOrder ==
    \A i \in 1..Len(reads) : \A id \in host.ids[reads[i]] :
        \A track \in {DataTrack(reads[i], id, DataUrl(reads[i]))} :
            /\ pushTrack(clearPlaylist(Cur), track).playlist = <<>>
            /\ \A file \in {f \in Files : ~Truthy(f, "path")} :
               \A other \in {DataTrack(file, n, DataUrl(file)) : n \in Ids} :
                  pushTrack(pushTrack(Cur, other), track).playlist
                      = playlist \o <<track, other>>
            /\ \A j \in (i + 1)..Len(reads) : \A n \in host.ids[reads[j]] :
               \A later \in {DataTrack(reads[j], n, DataUrl(reads[j]))} :
                  pushTrack(pushTrack(Cur, later), track).playlist
                      = playlist \o <<track, later>>

\* C29: every audio.play() the player calls has a handler for its
\* rejection that emits error, whether playTrack, the resume branch of
\* togglePlay or the repeat-one replay of the ended listener called it.
C29_RejectionsReported ==
    \A r \in {playTrack(Cur, index) : index \in 0..(Len(playlist) - 1)}
              \cup {togglePlay(Cur)}
              \cup {onEnded(Cur, random) : random \in RandomIndexes} :
        \A k \in 1..Len(r.plays) : r.plays[k].catch

\* C30: on a playlist that is not empty, two togglePlay() calls with no
\* event of the audio element delivered between them leave the element
\* paused, and do not both ask it to play.
C30_TogglePlayTwice ==
    Len(playlist) > 0 =>
        \A first \in {togglePlay(Cur)} : \A second \in {togglePlay(first)} :
            /\ second.audio.paused
            /\ ~(Len(first.plays) = 1 /\ Len(second.plays) = 2)

\* What stop(), clearPlaylist() and removeTrack(id of the current track)
\* yield.
Stoppers ==
    {stop(Cur), clearPlaylist(Cur)}
    \cup {removeTrack(Cur, playlist[i + 1].id) :
             i \in {currentTrackIndex} \ {-1}}

\* The indexes Math.random() may select in the player s.
RandomFor(s) ==
    IF s.shuffle /\ Len(s.playlist) > 0 THEN 0..(Len(s.playlist) - 1) ELSE {0}

\* C31: when no event of the audio element awaits delivery, a cursor of -1
\* means the element is paused; and an ended event that was queued when
\* stop(), removeTrack(id of the current track) or clearPlaylist() ran
\* does not start playback when it is delivered afterwards, whatever the
\* repeat mode.
C31_SilentWithoutTrack ==
    /\ (pending = <<>> /\ currentTrackIndex = -1) => audio.paused
    /\ (pending # <<>> /\ Head(pending) = "ended") =>
          \A s \in Stoppers : \A random \in RandomFor(s) :
              \A r \in {EndedTask([s EXCEPT !.pending = Tail(@)], random)} :
                  r.audio.paused /\ r.plays = <<>>

\* The cursor moves one track forward, or from the last track to -1 under
\* repeat "none" and to the first track under repeat "all"; from -1 it
\* does not move.
StepsForward ==
    \/ currentTrackIndex' = currentTrackIndex
    \/ /\ currentTrackIndex \in 0..(Len(playlist) - 2)
       /\ currentTrackIndex' = currentTrackIndex + 1
    \/ /\ currentTrackIndex = Len(playlist) - 1
       /\ currentTrackIndex' = IF repeat = "all" THEN 0 ELSE -1

\* What the ended listener emits: one trackchange for the track it
\* starts, or one stop after the last track under repeat "none"; before
\* it the pause of the element that reached its end.
EndedEmits ==
    \A r \in {EndedTask(AtEnded, 0)} :
    \A own \in {SelectSeq(r.emitted, LAMBDA e : e.ev # "pause")} :
        /\ Len(own) = 1
        /\ IF currentTrackIndex = Len(playlist) - 1 /\ repeat = "none"
           THEN own[1] = [ev |-> "stop"]
           ELSE own[1] = TrackChange(AtEnded, (currentTrackIndex + 1) % Len(playlist))

\* Stopped for good: no track selected, the element paused, nothing queued.
Stopped ==
    /\ currentTrackIndex = -1 /\ audio.paused /\ ~isPlaying
    /\ pending = <<>>

\* C32: with shuffle off, no user operation after playTrack(i), every
\* start succeeding and every started track reaching its end, the player
\* under repeat "none" selects i, i+1, ..., length-1 in that order, one
\* trackchange each, and ends stopped with cursor -1 after a single stop;
\* under repeat "all" it never stops and selects every index again and
\* again.
C32_PlaysThrough ==
    /\ [][StepsForward]_vars
    /\ []((pending # <<>> /\ Head(pending) = "ended") => EndedEmits)
    /\ [](currentTrackIndex # -1 =>
             audio.src = SourceOf(playlist[currentTrackIndex + 1]))
    /\ <>[](repeat = "none" => Stopped)
    /\ [](repeat = "all" => currentTrackIndex # -1)
    /\ \A k \in 0..(MaxTracks - 1) :
          []<>((repeat = "all" /\ k < Len(playlist)) => currentTrackIndex = k)

\* Under repeat "none" the player has stopped after the last of a full
\* playlist.
C32_Witness ==
    /\ Len(playlist) = MaxTracks /\ repeat = "none" /\ Stopped
    /\ audio.src = SourceOf(playlist[MaxTracks])

\* C33: after a save that fell back to the record without sources, a
\* player constructed afterwards has a playlist with the ids, names and
\* file names, in the order, of the playlist in memory at that save: no
\* track that had been removed, every track that had been added.
C33_FallbackHydrates ==
    \A r \in Edits :
        (/\ ~PrimaryFits(r.playlist)
         /\ r.store[MetaKey] = <<Stringify(MetadataOnly(r.playlist))>>)
            => MetadataOnly(loadPlaylist(r.store)) = MetadataOnly(r.playlist)

====
